---- MODULE Spec2Model ----
(***************************************************************************)
(* Model of the `DebugStub` derive macro (src/src/lib.rs).                 *)
(*                                                                         *)
(* The macro input (a syn::DeriveInput) is the record `ast`.  The macro    *)
(* runs in three steps (type-level attributes, generic bounds, data), the  *)
(* host compiler then resolves the names of the emitted impl, and the      *)
(* emitted `fmt` is run on a receiver `self`, one builder call per step.   *)
(***************************************************************************)
EXTENDS Integers, Sequences, FiniteSets, TLC

(***************************************************************************)
(* Bounds of the explored inputs.                                          *)
(***************************************************************************)
MaxFields == 2
MaxVariants == 2
MaxGenerics == 2
MaxTypeAttrs == 2
MaxFieldAttrs == 2
MaxNested == 2

SeqsUpTo(S, n) == UNION {[1..k -> S] : k \in 0..n}

(***************************************************************************)
(* Literals, nested metas and attributes (syn::Lit, NestedMeta, Attribute) *)
(***************************************************************************)
NoLit == [kind |-> "none", value |-> ""]
StrLit(s) == [kind |-> "Str", value |-> s]
IntLit(s) == [kind |-> "Int", value |-> s]

\* NestedMeta::Meta(Meta::Path | Meta::NameValue | Meta::List) or NestedMeta::Lit
NestedPath(p) == [kind |-> "Meta", path |-> p, form |-> "Path", lit |-> NoLit]
NestedNameValue(p, l) == [kind |-> "Meta", path |-> p, form |-> "NameValue", lit |-> l]
NestedList(p) == [kind |-> "Meta", path |-> p, form |-> "List", lit |-> NoLit]
NestedLit(l) == [kind |-> "Lit", path |-> "", form |-> "Lit", lit |-> l]

\* An attribute: its path and what attr.parse_meta() gives ("Err" when the
\* tokens are no meta at all).
AttrPath(n) == [name |-> n, meta |-> "Path", nested |-> <<>>, lit |-> NoLit]
AttrNameValue(n, l) == [name |-> n, meta |-> "NameValue", nested |-> <<>>, lit |-> l]
AttrList(n, ns) == [name |-> n, meta |-> "List", nested |-> ns, lit |-> NoLit]
AttrUnparsed(n) == [name |-> n, meta |-> "Err", nested |-> <<>>, lit |-> NoLit]

(***************************************************************************)
(* Diagnostics                                                             *)
(***************************************************************************)
\* (the back quotes of the messages are written ' here)
NoErr == ""
ErrIgnoreGenerics == "expected 'ignore_generics'"
ErrListOrNameValue == "expected 'List' or 'NameValue'"
ErrKeys == "expected 'some = _', 'ok = _', 'err = _', or 'ok = _, err = _'"
ErrLitStr == "expected string literal"
ErrUnion == "expected struct or enum"

(***************************************************************************)
(* Type-level attributes: src/src/lib.rs lines 123-143                     *)
(***************************************************************************)
\* The inner loop over the entries of one `#[debug_stub(...)]` list.
RECURSIVE ignore_generics_nested(_, _, _)
ignore_generics_nested(nested, i, flag) ==
    IF i > Len(nested) THEN [err |-> NoErr, flag |-> flag]
    ELSE IF nested[i].kind = "Meta" /\ nested[i].path = "ignore_generics"
         THEN ignore_generics_nested(nested, i + 1, TRUE)
         ELSE [err |-> ErrIgnoreGenerics, flag |-> flag]

\* The outer loop over the attributes of the type.
RECURSIVE ignore_generics_attrs(_, _, _)
ignore_generics_attrs(attrs, i, flag) ==
    IF i > Len(attrs) THEN [err |-> NoErr, flag |-> flag]
    ELSE LET attr == attrs[i] IN
         IF attr.meta = "Err" \/ attr.name # "debug_stub"
         THEN ignore_generics_attrs(attrs, i + 1, flag)
         ELSE IF attr.meta = "List"
              THEN LET r == ignore_generics_nested(attr.nested, 1, flag) IN
                   IF r.err # NoErr THEN r
                   ELSE ignore_generics_attrs(attrs, i + 1, r.flag)
              ELSE [err |-> ErrIgnoreGenerics, flag |-> flag]

(***************************************************************************)
(* Generic parameters: src/src/lib.rs lines 145-154                        *)
(***************************************************************************)
DebugBound == "::core::fmt::Debug"

TypeParam(n, bs) == [kind |-> "Type", name |-> n, bounds |-> bs]
LifetimeParam(n, bs) == [kind |-> "Lifetime", name |-> n, bounds |-> bs]
ConstParam(n) == [kind |-> "Const", name |-> n, bounds |-> <<>>]

push_debug_bound_all(p) == [p EXCEPT !.bounds = Append(@, DebugBound)]
push_debug_bound(p) ==
    IF p.kind = "Type" THEN [p EXCEPT !.bounds = Append(@, DebugBound)] ELSE p

generics_debug_bounded_of(generics, ignore) ==
    IF ~ignore
    THEN [i \in 1..Len(generics) |-> push_debug_bound(generics[i])]
    ELSE generics

(***************************************************************************)
(* Emitted statements.  A statement is either one builder call, or an `if` *)
(* on the field's expression with one builder call in each branch.         *)
(*   call: f.field(name, &wrap(arg))   (name = NoName: f.field(&wrap(arg)))*)
(*   arg : "format_args" = format_args!("{}", text)                        *)
(*         "ref"         = the expression itself                           *)
(*         "ok_unwrap"   = expr.as_ref().ok().unwrap()                     *)
(*         "err_unwrap"  = expr.as_ref().err().unwrap()                    *)
(***************************************************************************)
NoName == ""
NoExpr == [base |-> "none", id |-> ""]
SelfExpr(id) == [base |-> "self", id |-> id]
LocalExpr(id) == [base |-> "local", id |-> id]

NoText == [some |-> FALSE, s |-> ""]
SomeText(s) == [some |-> TRUE, s |-> s]

Call(name, wrap, arg, text) == [name |-> name, wrap |-> wrap, arg |-> arg, text |-> text]
NoCall == Call(NoName, "", "none", "")
Plain(expr, call) == [cond |-> "none", expr |-> expr, then |-> call, else |-> NoCall]
IfElse(cond, expr, t, e) == [cond |-> cond, expr |-> expr, then |-> t, else |-> e]
NoStmt == Plain(NoExpr, NoCall)

(***************************************************************************)
(* implement_*_attr: src/src/lib.rs lines 465-556                          *)
(***************************************************************************)
implement_replace_attr_unlabeled(name, value) ==
    Plain(NoExpr, Call(NoName, "", "format_args", value))
implement_replace_attr(name, value) ==
    Plain(NoExpr, Call(name, "", "format_args", value))

implement_some_attr_swapped(some, name, expr) ==
    IfElse("is_some", expr,
           Call(name, "", "format_args", "None"),
           Call(name, "Some", "format_args", some))
implement_some_attr(some, name, expr) ==
    IfElse("is_some", expr,
           Call(name, "Some", "format_args", some),
           Call(name, "", "format_args", "None"))

implement_result_attr_ok_twice(ok, err, name, expr) ==
    IfElse("is_ok", expr,
           Call(name, "Ok", "format_args", ok),
           Call(name, "Err", "format_args", ok))
implement_result_attr(ok, err, name, expr) ==
    IfElse("is_ok", expr,
           Call(name, "Ok", "format_args", ok),
           Call(name, "Err", "format_args", err))

implement_ok_attr_is_ok(ok, name, expr) ==
    IfElse("is_ok", expr,
           Call(name, "Err", "err_unwrap", ""),
           Call(name, "Ok", "format_args", ok))
implement_ok_attr(ok, name, expr) ==
    IfElse("is_err", expr,
           Call(name, "Err", "err_unwrap", ""),
           Call(name, "Ok", "format_args", ok))

implement_err_attr(err, name, expr) ==
    IfElse("is_ok", expr,
           Call(name, "Ok", "ok_unwrap", ""),
           Call(name, "Err", "format_args", err))

(***************************************************************************)
(* extract_named_value_attrs: src/src/lib.rs lines 439-463                 *)
(***************************************************************************)
RECURSIVE extract_named_value_attrs_from(_, _, _)
\* a loop that keeps the first text given for a key
extract_named_value_attrs_first(nested, i, acc) ==
    IF i > Len(nested) THEN acc
    ELSE LET n == nested[i] IN
         IF n.kind = "Meta" /\ n.form = "NameValue" /\ n.lit.kind = "Str"
         THEN IF n.path = "some" /\ ~acc.some.some
              THEN extract_named_value_attrs_from(nested, i + 1,
                       [acc EXCEPT !.some = SomeText(n.lit.value)])
              ELSE IF n.path = "ok" /\ ~acc.ok.some
              THEN extract_named_value_attrs_from(nested, i + 1,
                       [acc EXCEPT !.ok = SomeText(n.lit.value)])
              ELSE IF n.path = "err" /\ ~acc.err.some
              THEN extract_named_value_attrs_from(nested, i + 1,
                       [acc EXCEPT !.err = SomeText(n.lit.value)])
              ELSE extract_named_value_attrs_from(nested, i + 1, acc)
         ELSE extract_named_value_attrs_from(nested, i + 1, acc)
extract_named_value_attrs_from(nested, i, acc) ==
    IF i > Len(nested) THEN acc
    ELSE LET n == nested[i] IN
         IF n.kind = "Meta" /\ n.form = "NameValue" /\ n.lit.kind = "Str"
         THEN IF n.path = "some"
              THEN extract_named_value_attrs_from(nested, i + 1,
                       [acc EXCEPT !.some = SomeText(n.lit.value)])
              ELSE IF n.path = "ok"
              THEN extract_named_value_attrs_from(nested, i + 1,
                       [acc EXCEPT !.ok = SomeText(n.lit.value)])
              ELSE IF n.path = "err"
              THEN extract_named_value_attrs_from(nested, i + 1,
                       [acc EXCEPT !.err = SomeText(n.lit.value)])
              ELSE extract_named_value_attrs_from(nested, i + 1, acc)
         ELSE extract_named_value_attrs_from(nested, i + 1, acc)

extract_named_value_attrs(nested) ==
    extract_named_value_attrs_from(nested, 1,
        [ok |-> NoText, err |-> NoText, some |-> NoText])

(***************************************************************************)
(* extract_value_attr: src/src/lib.rs lines 389-437                        *)
(***************************************************************************)
Extracted(used, stmt) == [err |-> NoErr, used |-> used, stmt |-> stmt]
ExtractErr(msg) == [err |-> msg, used |-> FALSE, stmt |-> NoStmt]

\* the match on the (ok, err, some) triple of a `#[debug_stub(...)]` list
extract_list_attr_lenient(expr, nested, name) ==
    LET t == extract_named_value_attrs(nested) IN
    IF t.some.some
    THEN Extracted(TRUE, implement_some_attr(t.some.s, name, expr))
    ELSE IF t.ok.some /\ t.err.some
    THEN Extracted(TRUE, implement_result_attr(t.ok.s, t.err.s, name, expr))
    ELSE IF t.ok.some
    THEN Extracted(TRUE, implement_ok_attr(t.ok.s, name, expr))
    ELSE IF t.err.some
    THEN Extracted(TRUE, implement_err_attr(t.err.s, name, expr))
    ELSE ExtractErr(ErrKeys)
extract_list_attr(expr, nested, name) ==
    LET t == extract_named_value_attrs(nested) IN
    IF ~t.ok.some /\ ~t.err.some /\ t.some.some
    THEN Extracted(TRUE, implement_some_attr(t.some.s, name, expr))
    ELSE IF t.ok.some /\ t.err.some /\ ~t.some.some
    THEN Extracted(TRUE, implement_result_attr(t.ok.s, t.err.s, name, expr))
    ELSE IF t.ok.some /\ ~t.err.some /\ ~t.some.some
    THEN Extracted(TRUE, implement_ok_attr(t.ok.s, name, expr))
    ELSE IF ~t.ok.some /\ t.err.some /\ ~t.some.some
    THEN Extracted(TRUE, implement_err_attr(t.err.s, name, expr))
    ELSE ExtractErr(ErrKeys)

\* the statement of a field without a debug_stub attribute (lines 433-436)
default_field_stmt(expr, name) ==
    Extracted(TRUE, Plain(expr, Call(name, "", "ref", "")))

RECURSIVE extract_value_attr_from(_, _, _, _)
\* a loop that goes on after the first debug_stub attribute
extract_value_attr_all(expr, attrs, name, i) ==
    IF i > Len(attrs) THEN default_field_stmt(expr, name)
    ELSE LET attr == attrs[i]
             rest == extract_value_attr_from(expr, attrs, name, i + 1)
             this == IF attr.meta = "Path" THEN ExtractErr(ErrListOrNameValue)
                     ELSE IF attr.meta = "List"
                     THEN extract_list_attr(expr, attr.nested, name)
                     ELSE IF attr.lit.kind # "Str" THEN ExtractErr(ErrLitStr)
                     ELSE Extracted(FALSE, implement_replace_attr(name, attr.lit.value))
         IN IF attr.meta = "Err" \/ attr.name # "debug_stub" THEN rest
            ELSE IF this.err = NoErr /\ rest.err # NoErr THEN rest
            ELSE this
\* a loop that takes a literal of any kind as the replacement text
extract_value_attr_any_lit(expr, attrs, name, i) ==
    IF i > Len(attrs) THEN default_field_stmt(expr, name)
    ELSE LET attr == attrs[i] IN
         IF attr.meta = "Err" \/ attr.name # "debug_stub"
         THEN extract_value_attr_from(expr, attrs, name, i + 1)
         ELSE IF attr.meta = "Path" THEN ExtractErr(ErrListOrNameValue)
         ELSE IF attr.meta = "List" THEN extract_list_attr(expr, attr.nested, name)
         ELSE Extracted(FALSE, implement_replace_attr(name, attr.lit.value))
\* a loop that reports the value as used for a string assignment too
extract_value_attr_lit_used(expr, attrs, name, i) ==
    IF i > Len(attrs) THEN default_field_stmt(expr, name)
    ELSE LET attr == attrs[i] IN
         IF attr.meta = "Err" \/ attr.name # "debug_stub"
         THEN extract_value_attr_from(expr, attrs, name, i + 1)
         ELSE IF attr.meta = "Path" THEN ExtractErr(ErrListOrNameValue)
         ELSE IF attr.meta = "List" THEN extract_list_attr(expr, attr.nested, name)
         ELSE IF attr.lit.kind # "Str" THEN ExtractErr(ErrLitStr)
         ELSE Extracted(TRUE, implement_replace_attr(name, attr.lit.value))
extract_value_attr_from(expr, attrs, name, i) ==
    IF i > Len(attrs) THEN default_field_stmt(expr, name)
    ELSE LET attr == attrs[i] IN
         IF attr.meta = "Err" \/ attr.name # "debug_stub"
         THEN extract_value_attr_from(expr, attrs, name, i + 1)
         ELSE IF attr.meta = "Path" THEN ExtractErr(ErrListOrNameValue)
         ELSE IF attr.meta = "List" THEN extract_list_attr(expr, attr.nested, name)
         ELSE IF attr.lit.kind # "Str" THEN ExtractErr(ErrLitStr)
         ELSE Extracted(FALSE, implement_replace_attr(name, attr.lit.value))

extract_value_attr(expr, attrs, name) == extract_value_attr_from(expr, attrs, name, 1)

(***************************************************************************)
(* Fields and identifiers.  An identifier is the text Ident::to_string     *)
(* gives (a raw identifier keeps its r# prefix).                           *)
(***************************************************************************)
Field(ident, attrs, ty) == [ident |-> ident, attrs |-> attrs, ty |-> ty]
Fields(kind, list) == [kind |-> kind, list |-> list]
UnitFields == Fields("Unit", <<>>)

\* syn::Index::from(index) and format!("tuple_{}", index), index = 0, 1, ...
IndexNames == <<"0", "1", "2", "3", "4", "5", "6", "7">>
TupleIdents == <<"tuple_0", "tuple_1", "tuple_2", "tuple_3",
                 "tuple_4", "tuple_5", "tuple_6", "tuple_7">>

Stmts(err, stmts) == [err |-> err, stmts |-> stmts]

(***************************************************************************)
(* generate_field_stmts: src/src/lib.rs lines 270-283                      *)
(* (collect stops at the first field whose attribute is in error)          *)
(***************************************************************************)
RECURSIVE generate_field_stmts_from(_, _, _)
generate_field_stmts_from(named, i, acc) ==
    IF i > Len(named) THEN Stmts(NoErr, acc)
    ELSE LET ident == named[i].ident
             r == extract_value_attr(SelfExpr(ident), named[i].attrs, ident)
         IN IF r.err # NoErr THEN Stmts(r.err, <<>>)
            ELSE generate_field_stmts_from(named, i + 1, Append(acc, r.stmt))

generate_field_stmts(fields) == generate_field_stmts_from(fields.list, 1, <<>>)

(***************************************************************************)
(* generate_tuple_field_stmts: src/src/lib.rs lines 285-298                *)
(***************************************************************************)
RECURSIVE generate_tuple_field_stmts_from(_, _, _)
\* a collect that yields the statements last field first
generate_tuple_field_stmts_rev(unnamed, i, acc) ==
    IF i > Len(unnamed) THEN Stmts(NoErr, acc)
    ELSE LET r == extract_value_attr(SelfExpr(IndexNames[i]), unnamed[i].attrs, NoName)
         IN IF r.err # NoErr THEN Stmts(r.err, <<>>)
            ELSE generate_tuple_field_stmts_from(unnamed, i + 1, <<r.stmt>> \o acc)
generate_tuple_field_stmts_from(unnamed, i, acc) ==
    IF i > Len(unnamed) THEN Stmts(NoErr, acc)
    ELSE LET r == extract_value_attr(SelfExpr(IndexNames[i]), unnamed[i].attrs, NoName)
         IN IF r.err # NoErr THEN Stmts(r.err, <<>>)
            ELSE generate_tuple_field_stmts_from(unnamed, i + 1, Append(acc, r.stmt))

generate_tuple_field_stmts(fields) == generate_tuple_field_stmts_from(fields.list, 1, <<>>)

(***************************************************************************)
(* generate_enum_variant_fields: src/src/lib.rs lines 355-387              *)
(* fields: sequence of (ident, attrs, name); patterns are identifiers,     *)
(* "_" or ".."                                                             *)
(***************************************************************************)
VariantField(ident, attrs, name) == [ident |-> ident, attrs |-> attrs, name |-> name]

RECURSIVE generate_enum_variant_fields_from(_, _, _, _, _)
\* a loop that leaves unused record fields out without noting it
generate_enum_variant_fields_no_rest(fields, i, pats, unused_fields, stmts) ==
    IF i > Len(fields)
    THEN [err |-> NoErr,
          pats |-> IF unused_fields THEN Append(pats, "..") ELSE pats,
          stmts |-> stmts]
    ELSE LET fld == fields[i]
             unnamed == (fld.name = NoName)
             r == extract_value_attr(LocalExpr(fld.ident), fld.attrs, fld.name)
         IN IF r.err # NoErr THEN [err |-> r.err, pats |-> <<>>, stmts |-> <<>>]
            ELSE IF r.used
            THEN generate_enum_variant_fields_from(fields, i + 1,
                     Append(pats, fld.ident), unused_fields, Append(stmts, r.stmt))
            ELSE IF unnamed
            THEN generate_enum_variant_fields_from(fields, i + 1,
                     Append(pats, "_"), unused_fields, Append(stmts, r.stmt))
            ELSE generate_enum_variant_fields_from(fields, i + 1,
                     pats, unused_fields, Append(stmts, r.stmt))
\* a loop that binds every field, used or not
generate_enum_variant_fields_bind_all(fields, i, pats, unused_fields, stmts) ==
    IF i > Len(fields)
    THEN [err |-> NoErr, pats |-> pats, stmts |-> stmts]
    ELSE LET fld == fields[i]
             r == extract_value_attr(LocalExpr(fld.ident), fld.attrs, fld.name)
         IN IF r.err # NoErr THEN [err |-> r.err, pats |-> <<>>, stmts |-> <<>>]
            ELSE generate_enum_variant_fields_from(fields, i + 1,
                     Append(pats, fld.ident), unused_fields, Append(stmts, r.stmt))
generate_enum_variant_fields_from(fields, i, pats, unused_fields, stmts) ==
    IF i > Len(fields)
    THEN [err |-> NoErr,
          pats |-> IF unused_fields THEN Append(pats, "..") ELSE pats,
          stmts |-> stmts]
    ELSE LET fld == fields[i]
             unnamed == (fld.name = NoName)
             r == extract_value_attr(LocalExpr(fld.ident), fld.attrs, fld.name)
         IN IF r.err # NoErr THEN [err |-> r.err, pats |-> <<>>, stmts |-> <<>>]
            ELSE IF r.used
            THEN generate_enum_variant_fields_from(fields, i + 1,
                     Append(pats, fld.ident), unused_fields, Append(stmts, r.stmt))
            ELSE IF unnamed
            THEN generate_enum_variant_fields_from(fields, i + 1,
                     Append(pats, "_"), unused_fields, Append(stmts, r.stmt))
            ELSE generate_enum_variant_fields_from(fields, i + 1,
                     pats, TRUE, Append(stmts, r.stmt))

generate_enum_variant_fields(fields) ==
    generate_enum_variant_fields_from(fields, 1, <<>>, FALSE, <<>>)

(***************************************************************************)
(* generate_arm: src/src/lib.rs lines 300-353                              *)
(* An arm: the pattern `enum::variant {pats}` / `(pats)` / bare, and the   *)
(* body: the builder opened on `f` with the variant's name, the            *)
(* statements, finish (or a single write_str).                             *)
(***************************************************************************)
Variant(ident, fields) == [ident |-> ident, fields |-> fields]

Arm(enum, variant, shape, pats, open, name, stmts) ==
    [enum |-> enum, variant |-> variant, shape |-> shape, pats |-> pats,
     open |-> open, name |-> name, stmts |-> stmts]
NoArm == Arm("", "", "Unit", <<>>, "none", "", <<>>)

generate_arm(ident, variant) ==
    LET variant_ident == variant.ident
        variant_name == variant_ident
    IN IF variant.fields.kind = "Named"
       THEN LET fields == [i \in 1..Len(variant.fields.list) |->
                              VariantField(variant.fields.list[i].ident,
                                           variant.fields.list[i].attrs,
                                           variant.fields.list[i].ident)]
                g == generate_enum_variant_fields(fields)
            IN IF g.err # NoErr THEN [err |-> g.err, arm |-> NoArm]
               ELSE [err |-> NoErr,
                     arm |-> Arm(ident, variant_ident, "Named", g.pats,
                                 "debug_struct", variant_name, g.stmts)]
       ELSE IF variant.fields.kind = "Unnamed"
       THEN LET fields == [i \in 1..Len(variant.fields.list) |->
                              VariantField(TupleIdents[i],
                                           variant.fields.list[i].attrs, NoName)]
                g == generate_enum_variant_fields(fields)
            IN IF g.err # NoErr THEN [err |-> g.err, arm |-> NoArm]
               ELSE [err |-> NoErr,
                     arm |-> Arm(ident, variant_ident, "Unnamed", g.pats,
                                 "debug_tuple", variant_name, g.stmts)]
       ELSE [err |-> NoErr,
             arm |-> Arm(ident, variant_ident, "Unit", <<>>,
                         "write_str", variant_name, <<>>)]

(***************************************************************************)
(* the arms of all variants: src/src/lib.rs lines 182-185                  *)
(***************************************************************************)
RECURSIVE generate_arms_from(_, _, _, _)
generate_arms_skip_last(ident, variants, i, acc) ==
    IF i >= Len(variants) THEN [err |-> NoErr, arms |-> acc]
    ELSE LET r == generate_arm(ident, variants[i])
         IN IF r.err # NoErr THEN [err |-> r.err, arms |-> <<>>]
            ELSE generate_arms_from(ident, variants, i + 1, Append(acc, r.arm))
generate_arms_from(ident, variants, i, acc) ==
    IF i > Len(variants) THEN [err |-> NoErr, arms |-> acc]
    ELSE LET r == generate_arm(ident, variants[i])
         IN IF r.err # NoErr THEN [err |-> r.err, arms |-> <<>>]
            ELSE generate_arms_from(ident, variants, i + 1, Append(acc, r.arm))

(***************************************************************************)
(* The emitted impl: implement_named_fields_struct_debug (194-213),        *)
(* implement_unnamed_fields_struct_debug (215-234),                        *)
(* implement_unit_struct_debug (236-248), implement_enum_debug (250-268)   *)
(***************************************************************************)
Impl(body, ident, generics, name, stmts, arms) ==
    [body |-> body, ident |-> ident, generics |-> generics, name |-> name,
     stmts |-> stmts, arms |-> arms]
NoImpl == Impl("none", "", <<>>, "", <<>>, <<>>)

implement_named_fields_struct_debug(ident, generics, stmts) ==
    Impl("debug_struct", ident, generics, ident, stmts, <<>>)

\* an emitter that writes the bare name when there is no statement
implement_unnamed_fields_struct_debug_bare(ident, generics, stmts) ==
    IF stmts = <<>> THEN Impl("write_str", ident, generics, ident, <<>>, <<>>)
    ELSE Impl("debug_tuple", ident, generics, ident, stmts, <<>>)
implement_unnamed_fields_struct_debug(ident, generics, stmts) ==
    Impl("debug_tuple", ident, generics, ident, stmts, <<>>)

implement_unit_struct_debug_anonymous(ident, generics) ==
    Impl("write_str", ident, generics, "", <<>>, <<>>)
implement_unit_struct_debug(ident, generics) ==
    Impl("write_str", ident, generics, ident, <<>>, <<>>)

implement_enum_debug(ident, generics, arms) ==
    Impl("match", ident, generics, "", <<>>, arms)

(***************************************************************************)
(* expand_derive_serialize, the match on ast.data: lines 156-191           *)
(***************************************************************************)
Data(kind, fields, variants) == [kind |-> kind, fields |-> fields, variants |-> variants]
Expanded(err, impl) == [err |-> err, impl |-> impl]

expand_data(ast, generics) ==
    IF ast.data.kind = "Struct"
    THEN IF ast.data.fields.kind = "Named"
         THEN LET r == generate_field_stmts(ast.data.fields)
              IN IF r.err # NoErr THEN Expanded(r.err, NoImpl)
                 ELSE Expanded(NoErr, implement_named_fields_struct_debug(
                                          ast.ident, generics, r.stmts))
         ELSE IF ast.data.fields.kind = "Unnamed"
         THEN LET r == generate_tuple_field_stmts(ast.data.fields)
              IN IF r.err # NoErr THEN Expanded(r.err, NoImpl)
                 ELSE Expanded(NoErr, implement_unnamed_fields_struct_debug(
                                          ast.ident, generics, r.stmts))
         ELSE Expanded(NoErr, implement_unit_struct_debug(ast.ident, generics))
    ELSE IF ast.data.kind = "Enum"
    THEN LET r == generate_arms_from(ast.ident, ast.data.variants, 1, <<>>)
         IN IF r.err # NoErr THEN Expanded(r.err, NoImpl)
            ELSE Expanded(NoErr, implement_enum_debug(ast.ident, generics, r.arms))
    ELSE Expanded(ErrUnion, NoImpl)

(***************************************************************************)
(* Runtime values of fields and the receiver.                              *)
(*   ty "Plain": any type with its own representation or none              *)
(*   ty "Option": None | Some(inner);  ty "Result": Ok(inner) | Err(inner) *)
(***************************************************************************)
Value(tag, inner) == [tag |-> tag, inner |-> inner]
NoValue == Value("none", "")
Inner == {"v0", "v1"}
ValuesOf(ty) ==
    IF ty = "Option" THEN {Value("None", "")} \cup {Value("Some", x) : x \in Inner}
    ELSE IF ty = "Result" THEN {Value(t, x) : t \in {"Ok", "Err"}, x \in Inner}
    ELSE {Value("Plain", x) : x \in Inner}

Receiver(variant, vals) == [variant |-> variant, vals |-> vals]

(***************************************************************************)
(* Name resolution and typing of the emitted impl by the host compiler.    *)
(* In an arm the names bound by the pattern are in scope of the body and   *)
(* shadow the parameter `f` of fmt (templates at lines 319-325, 341-347).  *)
(***************************************************************************)
Range(seq) == {seq[i] : i \in 1..Len(seq)}

\* names a pattern list binds
bound_names(pats) == Range(pats) \ {"_", ".."}

\* what `f` denotes where the body opens the builder
handle_of(arm) == IF "f" \in bound_names(arm.pats) THEN "binding" ELSE "formatter"

\* the field (index; 0 = unresolved) an expression of a struct body denotes
self_field(fields, expr) ==
    IF expr.base # "self" THEN 0
    ELSE IF fields.kind = "Named"
    THEN IF \E i \in 1..Len(fields.list) : fields.list[i].ident = expr.id
         THEN CHOOSE i \in 1..Len(fields.list) : fields.list[i].ident = expr.id
         ELSE 0
    ELSE IF \E i \in 1..Len(fields.list) : IndexNames[i] = expr.id
         THEN CHOOSE i \in 1..Len(fields.list) : IndexNames[i] = expr.id
         ELSE 0

\* the field an expression of an arm body denotes, through the arm's pattern
local_field(fields, arm, expr) ==
    IF expr.base # "local" \/ expr.id \notin bound_names(arm.pats) THEN 0
    ELSE IF arm.shape = "Named"
    THEN IF \E i \in 1..Len(fields.list) : fields.list[i].ident = expr.id
         THEN CHOOSE i \in 1..Len(fields.list) : fields.list[i].ident = expr.id
         ELSE 0
    ELSE IF \E i \in 1..Len(arm.pats) : arm.pats[i] = expr.id
         THEN CHOOSE i \in 1..Len(arm.pats) : arm.pats[i] = expr.id
         ELSE 0

\* `is_some` needs an Option, `is_ok`/`is_err` a Result
stmt_ok(stmt, fields, i) ==
    IF stmt.expr = NoExpr THEN stmt.cond = "none"
    ELSE /\ i # 0
         /\ stmt.cond = "is_some" => fields.list[i].ty = "Option"
         /\ stmt.cond \in {"is_ok", "is_err"} => fields.list[i].ty = "Result"

pattern_ok(fields, arm) ==
    IF arm.shape = "Named"
    THEN /\ bound_names(arm.pats) \subseteq {fields.list[i].ident : i \in 1..Len(fields.list)}
         /\ \/ ".." \in Range(arm.pats)
            \/ Cardinality(bound_names(arm.pats)) = Len(fields.list)
    ELSE IF arm.shape = "Unnamed"
    THEN Len(arm.pats) = Len(fields.list)
    ELSE arm.pats = <<>>

arm_ok(fields, arm) ==
    /\ arm.shape = fields.kind
    /\ pattern_ok(fields, arm)
    /\ arm.open # "write_str" => handle_of(arm) = "formatter"
    /\ \A k \in 1..Len(arm.stmts) :
           stmt_ok(arm.stmts[k], fields, local_field(fields, arm, arm.stmts[k].expr))

impl_ok(ast, impl) ==
    IF impl.body = "match"
    THEN /\ \A v \in 1..Len(ast.data.variants) :
               \E k \in 1..Len(impl.arms) : impl.arms[k].variant = ast.data.variants[v].ident
         /\ \A k \in 1..Len(impl.arms) :
               \E v \in 1..Len(ast.data.variants) :
                   /\ impl.arms[k].variant = ast.data.variants[v].ident
                   /\ impl.arms[k].enum = ast.ident
                   /\ arm_ok(ast.data.variants[v].fields, impl.arms[k])
    ELSE \A k \in 1..Len(impl.stmts) :
             stmt_ok(impl.stmts[k], ast.data.fields,
                     self_field(ast.data.fields, impl.stmts[k].expr))

(***************************************************************************)
(* Running the emitted fmt: builder calls                                  *)
(***************************************************************************)
Term(wrap, src, text, v) == [wrap |-> wrap, src |-> src, text |-> text, v |-> v]
NoTerm == Term("", "none", "", NoValue)
BCall(op, name, term) == [op |-> op, name |-> name, term |-> term]

\* the argument of one f.field call, given the value of the statement's expression
exec_call(call, v) ==
    BCall("field", call.name,
          IF call.arg = "format_args" THEN Term(call.wrap, "args", call.text, NoValue)
          ELSE IF call.arg = "ref" THEN Term(call.wrap, "ref", "", v)
          ELSE Term(call.wrap, "ref", "", Value("Plain", v.inner)))

cond_holds(cond, v) ==
    IF cond = "is_some" THEN v.tag = "Some"
    ELSE IF cond = "is_ok" THEN v.tag = "Ok"
    ELSE v.tag = "Err"

exec_stmt(stmt, v) ==
    IF stmt.cond = "none" THEN exec_call(stmt.then, v)
    ELSE IF cond_holds(stmt.cond, v) THEN exec_call(stmt.then, v)
    ELSE exec_call(stmt.else, v)

\* `match self`: the first arm whose pattern matches the receiver's variant (0: none)
select_arm(ast, impl, recv) ==
    LET hits == {k \in 1..Len(impl.arms) :
                    impl.arms[k].variant = ast.data.variants[recv.variant].ident}
    IN IF hits = {} THEN 0 ELSE CHOOSE k \in hits : \A j \in hits : k <= j

\* the value a statement's expression denotes in the receiver
stmt_value(ast, impl, k, recv, stmt) ==
    IF stmt.expr = NoExpr THEN NoValue
    ELSE IF impl.body = "match"
    THEN recv.vals[local_field(ast.data.variants[recv.variant].fields,
                               impl.arms[k], stmt.expr)]
    ELSE recv.vals[self_field(ast.data.fields, stmt.expr)]

body_open(impl, k) == IF impl.body = "match" THEN impl.arms[k].open ELSE impl.body
body_name(impl, k) == IF impl.body = "match" THEN impl.arms[k].name ELSE impl.name
body_stmts(impl, k) == IF impl.body = "match" THEN impl.arms[k].stmts ELSE impl.stmts

\* all builder calls of one run of fmt
fmt_calls(ast, impl, recv) ==
    LET k == IF impl.body = "match" THEN select_arm(ast, impl, recv) ELSE 0
        stmts == body_stmts(impl, k)
    IN IF body_open(impl, k) = "write_str"
       THEN <<BCall("write_str", body_name(impl, k), NoTerm)>>
       ELSE <<BCall(body_open(impl, k), body_name(impl, k), NoTerm)>>
            \o [i \in 1..Len(stmts) |->
                   exec_stmt(stmts[i], stmt_value(ast, impl, k, recv, stmts[i]))]
            \o <<BCall("finish", "", NoTerm)>>

(***************************************************************************)
(* The output builder (core::fmt::Formatter, DebugStruct, DebugTuple):     *)
(* the text, as a sequence of pieces, that a sequence of builder calls     *)
(* writes in compact ({:?}) and expanded ({:#?}) mode.                     *)
(***************************************************************************)
Indent(depth) == [i \in 1..depth |-> "    "]

\* a value's own representation
value_pieces(v, pretty, depth) ==
    IF v.tag \in {"Plain"} THEN <<v.inner>>
    ELSE IF v.tag = "None" THEN <<"None">>
    ELSE IF pretty
    THEN <<v.tag, "(\n">> \o Indent(depth + 1) \o <<v.inner, ",\n">>
         \o Indent(depth) \o <<")">>
    ELSE <<v.tag, "(", v.inner, ")">>

term_pieces(t, pretty, depth) ==
    LET base(d) == IF t.src = "args" THEN <<t.text>> ELSE value_pieces(t.v, pretty, d)
    IN IF t.wrap = "" THEN base(depth)
       ELSE IF pretty
       THEN <<t.wrap, "(\n">> \o Indent(depth + 1) \o base(depth + 1) \o <<",\n">>
            \o Indent(depth) \o <<")">>
       ELSE <<t.wrap, "(">> \o base(depth) \o <<")">>

\* the pieces one call adds; open: the opening call, n: field calls before this one
call_pieces(open, c, n, pretty) ==
    IF c.op \in {"debug_struct", "debug_tuple", "write_str"} THEN <<c.name>>
    ELSE IF c.op = "field"
    THEN IF open.op = "debug_struct"
         THEN IF pretty
              THEN (IF n = 0 THEN <<" {\n">> ELSE <<>>)
                   \o Indent(1) \o <<c.name, ": ">> \o term_pieces(c.term, TRUE, 1)
                   \o <<",\n">>
              ELSE <<IF n = 0 THEN " { " ELSE ", ", c.name, ": ">>
                   \o term_pieces(c.term, FALSE, 0)
         ELSE IF pretty
              THEN (IF n = 0 THEN <<"(\n">> ELSE <<>>)
                   \o Indent(1) \o term_pieces(c.term, TRUE, 1) \o <<",\n">>
              ELSE <<IF n = 0 THEN "(" ELSE ", ">> \o term_pieces(c.term, FALSE, 0)
    ELSE \* finish
         IF n = 0 THEN <<>>
         ELSE IF open.op = "debug_struct" THEN <<IF pretty THEN "}" ELSE " }">>
         ELSE IF n = 1 /\ open.name = "" /\ ~pretty THEN <<",", ")">>
         ELSE <<")">>

RECURSIVE render_from(_, _, _, _)
render_from(calls, i, n, pretty) ==
    IF i > Len(calls) THEN <<>>
    ELSE call_pieces(calls[1], calls[i], n, pretty)
         \o render_from(calls, i + 1, IF calls[i].op = "field" THEN n + 1 ELSE n, pretty)

render(calls, pretty) == render_from(calls, 1, 0, pretty)

(***************************************************************************)
(* Explored inputs                                                         *)
(***************************************************************************)
DebugStubLit(text) == AttrNameValue("debug_stub", StrLit(text))
DebugStubList(nested) == AttrList("debug_stub", nested)
KeyStr(key, text) == NestedNameValue(key, StrLit(text))

\* well-formed overrides with a field type they compile with
FieldOpts ==
    { <<<<>>, "Plain">>,
      <<<<DebugStubLit("L")>>, "Plain">>,
      <<<<DebugStubList(<<KeyStr("some", "S")>>)>>, "Option">>,
      <<<<DebugStubList(<<KeyStr("ok", "X"), KeyStr("err", "Y")>>)>>, "Result">>,
      <<<<DebugStubList(<<KeyStr("ok", "X")>>)>>, "Result">>,
      <<<<DebugStubList(<<KeyStr("err", "Y")>>)>>, "Result">> }

\* overrides of the fields after the second: one that uses the value, one that does not
LateFieldOpts ==
    { <<<<>>, "Plain">>, <<<<DebugStubLit("L")>>, "Plain">> }

FieldOptSeqs(n) ==
    {o \in [1..n -> FieldOpts] : \A i \in 1..n : i > 2 => o[i] \in LateFieldOpts}

\* field names: a, b, c, ... with at most one of them replaced by `f`, or the
\* first by a raw identifier
BaseIdents == <<"a", "b", "c", "d", "e", "g", "h", "i">>
NamedIdents(n) ==
    {[i \in 1..n |-> BaseIdents[i]]}
    \cup {[i \in 1..n |-> IF i = k THEN "f" ELSE BaseIdents[i]] : k \in 1..n}
    \cup {[i \in 1..n |-> IF i = 1 THEN "r#type" ELSE BaseIdents[i]] : k \in 1..n}

FieldsOfSize(n) ==
    {Fields("Named", [i \in 1..n |-> Field(ids[i], o[i][1], o[i][2])]) :
         ids \in NamedIdents(n), o \in FieldOptSeqs(n)}
    \cup {Fields("Unnamed", [i \in 1..n |-> Field("", o[i][1], o[i][2])]) :
              o \in FieldOptSeqs(n)}
    \cup (IF n = 0 THEN {UnitFields} ELSE {})

VariantIdents == <<"A", "B", "C", "D", "E", "F", "G", "H">>

Ast(ident, attrs, generics, data) ==
    [ident |-> ident, attrs |-> attrs, generics |-> generics, data |-> data]
StructData(fields) == Data("Struct", fields, <<>>)
EnumData(variants) == Data("Enum", UnitFields, variants)
UnionData == Data("Union", UnitFields, <<>>)

\* the variants beside the one whose fields are varied: `V` or `V(T)`
SideFields == {UnitFields, Fields("Unnamed", <<Field("", <<>>, "Plain")>>)}

RECURSIVE CountFields(_)
CountFields(variants) ==
    IF variants = <<>> THEN 0
    ELSE Len(Head(variants).fields.list) + CountFields(Tail(variants))

\* enums of k variants, the p-th with fields fs
EnumVariants(k, p, fs) ==
    {vs \in {[i \in 1..k |-> Variant(VariantIdents[i], IF i = p THEN fs ELSE side[i])] :
                side \in [1..k -> SideFields]} :
         CountFields(vs) <= MaxFields}

\* structs and enums of every shape, without type-level attributes
ShapeAsts ==
    LET shapes == UNION {FieldsOfSize(n) : n \in 0..MaxFields} IN
    {Ast("Name", <<>>, <<>>, StructData(fs)) : fs \in shapes}
    \cup UNION {{Ast("Name", <<>>, <<>>, EnumData(vs)) : vs \in EnumVariants(k, p, fs)} :
                    k \in 1..MaxVariants, p \in 1..MaxVariants, fs \in shapes}

\* entries of a field-level `#[debug_stub(...)]` list
FieldNestedPool ==
    { KeyStr("some", "S"), KeyStr("ok", "X"), KeyStr("ok", "X2"), KeyStr("err", "Y"),
      KeyStr("other", "X"), NestedNameValue("ok", IntLit("1")),
      NestedPath("some"), NestedList("err"), NestedLit(StrLit("S")) }

\* attributes of a field
FieldAttrPool ==
    { AttrPath("doc"), AttrUnparsed("debug_stub"), AttrPath("debug_stub"),
      DebugStubLit("L"), AttrNameValue("debug_stub", IntLit("1")),
      DebugStubList(<<KeyStr("some", "S")>>), DebugStubList(<<KeyStr("ok", "X")>>),
      DebugStubList(<<>>) }

FieldTypes == {"Plain", "Option", "Result"}

OneFieldAst(attrs, ty) ==
    Ast("Name", <<>>, <<>>, StructData(Fields("Named", <<Field("a", attrs, ty)>>)))

\* one field with one keyed list of every content
NestedAsts ==
    {OneFieldAst(<<DebugStubList(ns)>>, ty) :
         ns \in SeqsUpTo(FieldNestedPool, MaxNested), ty \in FieldTypes}

\* one field with every sequence of attributes
FieldAttrAsts ==
    {OneFieldAst(attrs, ty) :
         attrs \in SeqsUpTo(FieldAttrPool, MaxFieldAttrs), ty \in FieldTypes}

\* entries of a type-level `#[debug_stub(...)]` list
TypeNestedPool ==
    { NestedPath("ignore_generics"), NestedNameValue("ignore_generics", StrLit("x")),
      NestedList("ignore_generics"), NestedPath("other"), NestedLit(StrLit("x")) }

\* attributes of a type
TypeAttrPool ==
    { AttrPath("doc"), AttrUnparsed("debug_stub"), AttrPath("debug_stub"),
      DebugStubLit("x"), DebugStubList(<<NestedPath("ignore_generics")>>),
      DebugStubList(<<NestedPath("other")>>), DebugStubList(<<>>) }

GenericParamPool ==
    { TypeParam("T", <<>>), TypeParam("U", <<"Clone">>),
      LifetimeParam("'a", <<>>), ConstParam("N") }

SomeGenerics == <<LifetimeParam("'a", <<>>), TypeParam("T", <<>>)>>

\* types with every type-level attribute content
TypeAttrAsts ==
    {Ast("Name", attrs, SomeGenerics, data) :
         attrs \in SeqsUpTo(TypeAttrPool, MaxTypeAttrs)
                   \cup {<<DebugStubList(ns)>> : ns \in SeqsUpTo(TypeNestedPool, MaxNested)},
         data \in {StructData(UnitFields), UnionData}}

\* types with every list of generic parameters
GenericAsts ==
    {Ast("Name", attrs, generics, StructData(UnitFields)) :
         attrs \in {<<>>, <<DebugStubList(<<NestedPath("ignore_generics")>>)>>},
         generics \in SeqsUpTo(GenericParamPool, MaxGenerics)}

\* the attributes of a field among several: well-formed or in error
MixedFieldAttrs ==
    { <<>>, <<DebugStubLit("L")>>, <<AttrPath("debug_stub")>>, <<DebugStubList(<<>>)>>,
      <<AttrNameValue("debug_stub", IntLit("1"))>> }

MixedFields(kind, n) ==
    {Fields(kind, [i \in 1..n |-> Field(IF kind = "Named" THEN BaseIdents[i] ELSE "",
                                        o[i], "Plain")]) :
         o \in [1..n -> MixedFieldAttrs]}

\* types whose fields (or one-field variants) mix well-formed and erroneous
\* annotations, without a type-level annotation, with a bare one, and with
\* an empty list
MixedAsts ==
    UNION {{Ast("Name", attrs, <<>>, StructData(fs)) : fs \in MixedFields(kind, n)}
           \cup {Ast("Name", attrs, <<>>,
                     EnumData([v \in 1..n |->
                                  Variant(VariantIdents[v],
                                          Fields(kind, <<fs.list[v]>>))])) :
                      fs \in MixedFields(kind, n)} :
              attrs \in {<<>>, <<AttrPath("debug_stub")>>, <<DebugStubList(<<>>)>>},
              kind \in {"Named", "Unnamed"},
              n \in 1..MaxFields}

Asts ==
    ShapeAsts \cup NestedAsts \cup FieldAttrAsts \cup TypeAttrAsts \cup GenericAsts
    \cup MixedAsts

\* the receivers of a type: one value per field, of the field's type
RECURSIVE ValSeqs(_)
ValSeqs(list) ==
    IF list = <<>> THEN {<<>>}
    ELSE {<<v>> \o rest : v \in ValuesOf(Head(list).ty), rest \in ValSeqs(Tail(list))}

Receivers(a) ==
    IF a.data.kind = "Enum"
    THEN UNION {{Receiver(v, vals) : vals \in ValSeqs(a.data.variants[v].fields.list)} :
                    v \in 1..Len(a.data.variants)}
    ELSE {Receiver(0, vals) : vals \in ValSeqs(a.data.fields.list)}

(***************************************************************************)
(* State                                                                   *)
(***************************************************************************)
VARIABLES
    ast,                     \* the DeriveInput
    self,                    \* the receiver fmt is run on
    pc,                      \* position of the macro, the compiler or fmt
    ignore_generics,         \* local of expand_derive_serialize
    generics_debug_bounded,  \* local of expand_derive_serialize
    result,                  \* what expand_derive_serialize returns
    arm,                     \* the arm `match self` selected (0: none)
    next,                    \* the next statement of the body
    calls                    \* the builder calls made so far

vars == <<ast, self, pc, ignore_generics, generics_debug_bounded, result, arm, next, calls>>

NoReceiver == Receiver(0, <<>>)

Init ==
    /\ ast \in Asts
    /\ self = NoReceiver
    /\ pc = "attrs"
    /\ ignore_generics = FALSE
    /\ generics_debug_bounded = <<>>
    /\ result = Expanded(NoErr, NoImpl)
    /\ arm = 0
    /\ next = 1
    /\ calls = <<>>

(***************************************************************************)
(* expand_derive_serialize, step by step                                   *)
(***************************************************************************)
\* lines 123-143
ParseTypeAttrs ==
    /\ pc = "attrs"
    /\ LET r == ignore_generics_attrs(ast.attrs, 1, FALSE) IN
       /\ ignore_generics' = r.flag
       /\ IF r.err # NoErr
          THEN /\ result' = Expanded(r.err, NoImpl)
               /\ pc' = "diagnostic"
          ELSE /\ result' = result
               /\ pc' = "generics"
    /\ UNCHANGED <<ast, self, generics_debug_bounded, arm, next, calls>>

\* lines 145-154
BoundGenerics ==
    /\ pc = "generics"
    /\ generics_debug_bounded' = generics_debug_bounded_of(ast.generics, ignore_generics)
    /\ pc' = "data"
    /\ UNCHANGED <<ast, self, ignore_generics, result, arm, next, calls>>

\* lines 156-191, and derive_debug_stub's match on the result (lines 114-117)
ExpandData ==
    /\ pc = "data"
    /\ result' = expand_data(ast, generics_debug_bounded)
    /\ pc' = IF result'.err # NoErr THEN "diagnostic" ELSE "emitted"
    /\ UNCHANGED <<ast, self, ignore_generics, generics_debug_bounded, arm, next, calls>>

(***************************************************************************)
(* The host compiler accepts or rejects the emitted impl                   *)
(***************************************************************************)
Compile ==
    /\ pc = "emitted"
    /\ pc' = IF impl_ok(ast, result.impl) THEN "compiled" ELSE "rejected"
    /\ UNCHANGED <<ast, self, ignore_generics, generics_debug_bounded, result, arm, next, calls>>

(***************************************************************************)
(* The emitted fmt, one builder call per step                              *)
(***************************************************************************)
\* fmt is called on a receiver: `match self` (enums) and the opening call,
\* debug_struct, debug_tuple or write_str
FmtOpen ==
    /\ pc = "compiled"
    /\ self' \in Receivers(ast)
    /\ LET k == IF result.impl.body = "match" THEN select_arm(ast, result.impl, self') ELSE 0
       IN /\ arm' = k
          /\ calls' = <<BCall(body_open(result.impl, k), body_name(result.impl, k), NoTerm)>>
          /\ pc' = IF body_open(result.impl, k) = "write_str" THEN "done" ELSE "fields"
    /\ UNCHANGED <<ast, ignore_generics, generics_debug_bounded, result, next>>

\* the next statement of the body: one f.field call
FmtField ==
    /\ pc = "fields"
    /\ next <= Len(body_stmts(result.impl, arm))
    /\ LET stmt == body_stmts(result.impl, arm)[next]
       IN calls' = Append(calls, exec_stmt(stmt, stmt_value(ast, result.impl, arm, self, stmt)))
    /\ next' = next + 1
    /\ UNCHANGED <<ast, self, pc, ignore_generics, generics_debug_bounded, result, arm>>

\* f.finish()
FmtFinish ==
    /\ pc = "fields"
    /\ next > Len(body_stmts(result.impl, arm))
    /\ calls' = Append(calls, BCall("finish", "", NoTerm))
    /\ pc' = "done"
    /\ UNCHANGED <<ast, self, ignore_generics, generics_debug_bounded, result, arm, next>>

Next ==
    \/ ParseTypeAttrs
    \/ BoundGenerics
    \/ ExpandData
    \/ Compile
    \/ FmtOpen
    \/ FmtField
    \/ FmtFinish

Spec == Init /\ [][Next]_vars

(***************************************************************************)
(* Vocabulary of the claims: the override a field declares (spec sections  *)
(* 3 and 4.1), read off the field's annotations.                           *)
(***************************************************************************)
\* the fields of the shape being rendered, the field's label and value
CurFields ==
    IF ast.data.kind # "Enum" THEN ast.data.fields
    ELSE IF self.variant \in 1..Len(ast.data.variants)
    THEN ast.data.variants[self.variant].fields
    ELSE UnitFields
LabelOf(fields, i) == IF fields.kind = "Named" THEN fields.list[i].ident ELSE NoName
Rendering == pc \in {"fields", "done"}
Contributed(i) == Rendering /\ i \in 1..Len(CurFields.list) /\ Len(calls) > i

\* the debug_stub annotations of a field
StubsOf(fld) == SelectSeq(fld.attrs, LAMBDA a : a.name = "debug_stub")

\* positions of the string assignments to `key` in a keyed list
KeyPos(nested, key) ==
    {j \in 1..Len(nested) : /\ nested[j].kind = "Meta"
                            /\ nested[j].form = "NameValue"
                            /\ nested[j].lit.kind = "Str"
                            /\ nested[j].path = key}
TextOf(nested, key) == nested[CHOOSE j \in KeyPos(nested, key) : TRUE].lit.value
Once(nested, key) == Cardinality(KeyPos(nested, key)) = 1
Absent(nested, key) == KeyPos(nested, key) = {}

\* the field's one annotation is `#[debug_stub = "text"]`
IsLiteral(fld) ==
    /\ Len(StubsOf(fld)) = 1
    /\ StubsOf(fld)[1].meta = "NameValue"
    /\ StubsOf(fld)[1].lit.kind = "Str"
LiteralText(fld) == StubsOf(fld)[1].lit.value

\* the field's one annotation is a keyed list
IsKeyed(fld) == Len(StubsOf(fld)) = 1 /\ StubsOf(fld)[1].meta = "List"
KeysOf(fld) == StubsOf(fld)[1].nested

IsOptionalWrap(fld) ==
    /\ IsKeyed(fld)
    /\ Once(KeysOf(fld), "some") /\ Absent(KeysOf(fld), "ok") /\ Absent(KeysOf(fld), "err")
IsResultBoth(fld) ==
    /\ IsKeyed(fld)
    /\ Absent(KeysOf(fld), "some") /\ Once(KeysOf(fld), "ok") /\ Once(KeysOf(fld), "err")
IsResultOk(fld) ==
    /\ IsKeyed(fld)
    /\ Absent(KeysOf(fld), "some") /\ Once(KeysOf(fld), "ok") /\ Absent(KeysOf(fld), "err")
IsResultErr(fld) ==
    /\ IsKeyed(fld)
    /\ Absent(KeysOf(fld), "some") /\ Absent(KeysOf(fld), "ok") /\ Once(KeysOf(fld), "err")

Args(wrap, text) == Term(wrap, "args", text, NoValue)
Own(wrap, inner) == Term(wrap, "ref", "", Value("Plain", inner))
FieldCall(i, term) == BCall("field", LabelOf(CurFields, i), term)
WithValue(recv, i, v) == [recv EXCEPT !.vals[i] = v]

(***************************************************************************)
(* C1: a field whose override is Literal(text) contributes exactly `text`  *)
(* under the field's label (or position), rendered as `text` in compact    *)
(* and in expanded mode, and the finished run makes the same builder calls *)
(* for every other value the field could hold.                             *)
(***************************************************************************)
C1_LiteralVerbatim ==
    \A i \in 1..Len(CurFields.list) :
        (Rendering /\ IsLiteral(CurFields.list[i])) =>
            /\ Contributed(i) =>
                  /\ calls[i + 1] = FieldCall(i, Args("", LiteralText(CurFields.list[i])))
                  /\ term_pieces(calls[i + 1].term, FALSE, 0)
                         = <<LiteralText(CurFields.list[i])>>
                  /\ term_pieces(calls[i + 1].term, TRUE, 1)
                         = <<LiteralText(CurFields.list[i])>>
            /\ pc = "done" =>
                  \A v \in ValuesOf(CurFields.list[i].ty) :
                      /\ fmt_calls(ast, result.impl, WithValue(self, i, v)) = calls
                      /\ \A m \in BOOLEAN :
                             render(fmt_calls(ast, result.impl, WithValue(self, i, v)), m)
                                 = render(calls, m)

\* a finished rendering of a record variant with a Literal field after another field
C1_Witness ==
    /\ pc = "done"
    /\ ast.data.kind = "Enum"
    /\ CurFields.kind = "Named"
    /\ Len(CurFields.list) = 2
    /\ IsLiteral(CurFields.list[2])
    /\ self.vals[2] = Value("Plain", "v1")

(***************************************************************************)
(* C2: a field whose override is OptionalWrap(X) contributes Some(X) when  *)
(* its value is present and the literal None when it is absent, and        *)
(* nothing else.                                                           *)
(***************************************************************************)
C2_OptionalWrap ==
    \A i \in 1..Len(CurFields.list) :
        (Contributed(i) /\ IsOptionalWrap(CurFields.list[i])) =>
            LET x == TextOf(KeysOf(CurFields.list[i]), "some") IN
            /\ self.vals[i].tag = "Some" =>
                  /\ calls[i + 1] = FieldCall(i, Args("Some", x))
                  /\ term_pieces(calls[i + 1].term, FALSE, 0) = <<"Some", "(", x, ")">>
            /\ self.vals[i].tag # "Some" =>
                  /\ self.vals[i].tag = "None"
                  /\ calls[i + 1] = FieldCall(i, Args("", "None"))
                  /\ term_pieces(calls[i + 1].term, FALSE, 0) = <<"None">>

\* both branches, in a struct and in a variant
C2_Witness ==
    /\ pc = "done"
    /\ ast.data.kind = "Enum"
    /\ Len(CurFields.list) = 2
    /\ IsOptionalWrap(CurFields.list[1]) /\ IsOptionalWrap(CurFields.list[2])
    /\ self.vals[1].tag = "Some" /\ self.vals[2].tag = "None"

(***************************************************************************)
(* C3: a field whose override is ResultWrap(ok = X, err = Y) contributes   *)
(* Ok(X) when it holds a success and Err(Y) when it holds a failure,       *)
(* whatever the wrapped value is.                                          *)
(***************************************************************************)
C3_ResultBoth ==
    \A i \in 1..Len(CurFields.list) :
        (Contributed(i) /\ IsResultBoth(CurFields.list[i])) =>
            LET x == TextOf(KeysOf(CurFields.list[i]), "ok")
                y == TextOf(KeysOf(CurFields.list[i]), "err") IN
            /\ self.vals[i].tag = "Ok" =>
                  /\ calls[i + 1] = FieldCall(i, Args("Ok", x))
                  /\ term_pieces(calls[i + 1].term, FALSE, 0) = <<"Ok", "(", x, ")">>
            /\ self.vals[i].tag # "Ok" =>
                  /\ self.vals[i].tag = "Err"
                  /\ calls[i + 1] = FieldCall(i, Args("Err", y))
                  /\ term_pieces(calls[i + 1].term, FALSE, 0) = <<"Err", "(", y, ")">>

\* a failure holding the second inner value was rendered
C3_Witness ==
    /\ pc = "done"
    /\ Len(CurFields.list) = 2
    /\ IsResultBoth(CurFields.list[1]) /\ IsResultBoth(CurFields.list[2])
    /\ self.vals[1] = Value("Err", "v1") /\ self.vals[2] = Value("Ok", "v0")

(***************************************************************************)
(* C4: a one-sided ResultWrap renders the declared text on the declared    *)
(* side and the wrapped value's own representation on the other side.      *)
(***************************************************************************)
C4_ResultOneSided ==
    \A i \in 1..Len(CurFields.list) :
        /\ (Contributed(i) /\ IsResultOk(CurFields.list[i])) =>
              LET x == TextOf(KeysOf(CurFields.list[i]), "ok") IN
              /\ self.vals[i].tag = "Ok" => calls[i + 1] = FieldCall(i, Args("Ok", x))
              /\ self.vals[i].tag # "Ok" =>
                    /\ self.vals[i].tag = "Err"
                    /\ calls[i + 1] = FieldCall(i, Own("Err", self.vals[i].inner))
                    /\ term_pieces(calls[i + 1].term, FALSE, 0)
                           = <<"Err", "(", self.vals[i].inner, ")">>
        /\ (Contributed(i) /\ IsResultErr(CurFields.list[i])) =>
              LET y == TextOf(KeysOf(CurFields.list[i]), "err") IN
              /\ self.vals[i].tag = "Err" => calls[i + 1] = FieldCall(i, Args("Err", y))
              /\ self.vals[i].tag # "Err" =>
                    /\ self.vals[i].tag = "Ok"
                    /\ calls[i + 1] = FieldCall(i, Own("Ok", self.vals[i].inner))
                    /\ term_pieces(calls[i + 1].term, FALSE, 0)
                           = <<"Ok", "(", self.vals[i].inner, ")">>

\* the undeclared side of both one-sided forms was rendered
C4_Witness ==
    /\ pc = "done"
    /\ Len(CurFields.list) = 2
    /\ IsResultOk(CurFields.list[1]) /\ IsResultErr(CurFields.list[2])
    /\ self.vals[1] = Value("Err", "v1") /\ self.vals[2] = Value("Ok", "v0")

(***************************************************************************)
(* C5: for a struct or enum without overrides the emitted function makes   *)
(* the builder calls of the built-in derive: the same opening name, one    *)
(* contribution per field with the same label and the field's own value,   *)
(* in declaration order; the output is the same in both modes.             *)
(***************************************************************************)
\* the built-in derive names a field by its identifier without the raw marker
unraw(ident) == IF ident = "r#type" THEN "type" ELSE ident

CurName ==
    IF ast.data.kind = "Enum" /\ self.variant \in 1..Len(ast.data.variants)
    THEN ast.data.variants[self.variant].ident
    ELSE ast.ident

builtin_calls ==
    IF CurFields.list = <<>> THEN <<BCall("write_str", CurName, NoTerm)>>
    ELSE <<BCall(IF CurFields.kind = "Named" THEN "debug_struct" ELSE "debug_tuple",
                 CurName, NoTerm)>>
         \o [i \in 1..Len(CurFields.list) |->
                BCall("field",
                      IF CurFields.kind = "Named" THEN unraw(CurFields.list[i].ident)
                      ELSE NoName,
                      Term("", "ref", "", self.vals[i]))]
         \o <<BCall("finish", "", NoTerm)>>

AllFieldLists ==
    IF ast.data.kind = "Enum"
    THEN {ast.data.variants[v].fields.list : v \in 1..Len(ast.data.variants)}
    ELSE {ast.data.fields.list}

NoOverrides ==
    /\ ast.data.kind \in {"Struct", "Enum"}
    /\ \A a \in Range(ast.attrs) : a.name # "debug_stub"
    /\ \A list \in AllFieldLists : \A i \in 1..Len(list) : StubsOf(list[i]) = <<>>

C5_SameAsBuiltin ==
    NoOverrides =>
        /\ pc \notin {"diagnostic", "rejected"}
        /\ pc = "done" =>
              /\ CurFields.list # <<>> => calls = builtin_calls
              /\ \A m \in BOOLEAN : render(calls, m) = render(builtin_calls, m)

(***************************************************************************)
(* C6: a type or variant without fields renders as its bare name, without  *)
(* brackets or braces, in compact and in expanded mode alike, whether it   *)
(* is declared `Name`, `Name()` or `Name {}`.                              *)
(***************************************************************************)
C6_UnitBareName ==
    (pc = "done" /\ CurFields.list = <<>>) =>
        \A m \in BOOLEAN : render(calls, m) = <<CurName>>

\* a variant declared `B {}` was rendered
C6_Witness ==
    /\ pc = "done"
    /\ ast.data.kind = "Enum"
    /\ self.variant = 2
    /\ CurFields = Fields("Named", <<>>)

(***************************************************************************)
(* C7: the dispatch of a sum type has exactly one arm per declared         *)
(* variant, in declaration order, each on its variant's pattern (no        *)
(* default arm); rendering a value of variant V runs V's arm and only it,  *)
(* and the name rendered is V's name.                                      *)
(***************************************************************************)
Emitted == pc \in {"emitted", "compiled", "rejected", "fields", "done"}

C7_Dispatch ==
    (Emitted /\ ast.data.kind = "Enum") =>
        LET arms == result.impl.arms
            variants == ast.data.variants IN
        /\ result.impl.body = "match"
        /\ Len(arms) = Len(variants)
        /\ \A k \in 1..Len(arms) :
               /\ arms[k].enum = ast.ident
               /\ arms[k].variant = variants[k].ident
        /\ Rendering =>
               /\ arm = self.variant
               /\ {k \in 1..Len(arms) : arms[k].variant = variants[self.variant].ident}
                      = {self.variant}
               /\ calls[1].name = variants[self.variant].ident
               /\ calls[1].op = arms[arm].open
               /\ Len(calls) <= Len(arms[arm].stmts) + 2
               /\ pc = "done" => calls = fmt_calls(ast, [result.impl EXCEPT
                                             !.arms = <<arms[self.variant]>>], self)

\* a value of the second of two variants was rendered
C7_Witness ==
    /\ pc = "done"
    /\ ast.data.kind = "Enum"
    /\ Len(ast.data.variants) = 2
    /\ self.variant = 2
    /\ Len(calls) = 4

(***************************************************************************)
(* C8: without ignore_generics every type parameter gets the Debug bound   *)
(* after the bounds it already had and no other parameter is changed; with *)
(* ignore_generics the generic parameters are passed through unchanged.    *)
(***************************************************************************)
Bounded == pc \in {"data", "emitted", "compiled", "rejected", "fields", "done"}

C8_GenericBounds ==
    Bounded =>
        /\ Len(generics_debug_bounded) = Len(ast.generics)
        /\ \A i \in 1..Len(ast.generics) :
               IF ~ignore_generics /\ ast.generics[i].kind = "Type"
               THEN generics_debug_bounded[i] =
                        [ast.generics[i] EXCEPT !.bounds = ast.generics[i].bounds \o <<DebugBound>>]
               ELSE generics_debug_bounded[i] = ast.generics[i]
        /\ Emitted => result.impl.generics = generics_debug_bounded

\* a lifetime and an already bounded type parameter, ignore_generics unset
C8_Witness ==
    /\ pc = "done"
    /\ ~ignore_generics
    /\ ast.generics = <<LifetimeParam("'a", <<>>), TypeParam("U", <<"Clone">>)>>

(***************************************************************************)
(* C9: a type-level debug_stub annotation whose content is the flag        *)
(* ignore_generics sets the flag; any other content (bare annotation,      *)
(* string assignment, empty list, a list with another entry,               *)
(* ignore_generics with a payload) is the error "expected                  *)
(* 'ignore_generics'".                                                     *)
(***************************************************************************)
TypeStubs == SelectSeq(ast.attrs, LAMBDA a : a.name = "debug_stub" /\ a.meta # "Err")

IsIgnoreGenericsFlag(a) ==
    /\ a.meta = "List"
    /\ a.nested # <<>>
    /\ \A j \in 1..Len(a.nested) : a.nested[j] = NestedPath("ignore_generics")

C9_TypeLevelStrict ==
    (pc # "attrs" /\ Len(TypeStubs) = 1) =>
        IF IsIgnoreGenericsFlag(TypeStubs[1])
        THEN ignore_generics /\ result.err # ErrIgnoreGenerics
        ELSE pc = "diagnostic" /\ result.err = ErrIgnoreGenerics

(***************************************************************************)
(* C10: a field-level keyed list with only `some` gives OptionalWrap; with *)
(* `ok`, `err` or both it gives ResultWrap; every other combination        *)
(* (`some` together with `ok` or `err`, no recognized key) is the error    *)
(* "expected 'some = _', 'ok = _', 'err = _', or 'ok = _, err = _'".  An   *)
(* emitted ResultWrap has at least one of okText and errText.              *)
(***************************************************************************)
\* the declared fields, as <<variant (0 in a struct), position>>
FieldPositions ==
    IF ast.data.kind = "Enum"
    THEN UNION {{<<v, i>> : i \in 1..Len(ast.data.variants[v].fields.list)} :
                    v \in 1..Len(ast.data.variants)}
    ELSE {<<0, i>> : i \in 1..Len(ast.data.fields.list)}
FieldsAt(p) == IF p[1] = 0 THEN ast.data.fields ELSE ast.data.variants[p[1]].fields
FieldAt(p) == FieldsAt(p).list[p[2]]
StmtAt(p) ==
    IF p[1] = 0 THEN result.impl.stmts[p[2]] ELSE result.impl.arms[p[1]].stmts[p[2]]

KeyTexts(nested, key) == {nested[j].lit.value : j \in KeyPos(nested, key)}
Declares(fld, key) == KeyPos(KeysOf(fld), key) # {}

IsOptionalStmt(stmt, label, texts) ==
    /\ stmt.cond = "is_some"
    /\ stmt.then.name = label /\ stmt.then.wrap = "Some" /\ stmt.then.arg = "format_args"
    /\ stmt.then.text \in texts
    /\ stmt.else = Call(label, "", "format_args", "None")

\* the two calls of a ResultWrap statement: the success one and the failure one
OkCall(stmt) == IF stmt.cond = "is_ok" THEN stmt.then ELSE stmt.else
ErrCall(stmt) == IF stmt.cond = "is_ok" THEN stmt.else ELSE stmt.then

IsResultStmt(stmt, label, okTexts, errTexts) ==
    /\ stmt.cond \in {"is_ok", "is_err"}
    /\ OkCall(stmt).name = label /\ OkCall(stmt).wrap = "Ok"
    /\ ErrCall(stmt).name = label /\ ErrCall(stmt).wrap = "Err"
    /\ IF okTexts # {}
       THEN OkCall(stmt).arg = "format_args" /\ OkCall(stmt).text \in okTexts
       ELSE OkCall(stmt).arg = "ok_unwrap"
    /\ IF errTexts # {}
       THEN ErrCall(stmt).arg = "format_args" /\ ErrCall(stmt).text \in errTexts
       ELSE ErrCall(stmt).arg = "err_unwrap"

ValidKeys(fld) ==
    \/ Declares(fld, "some") /\ ~Declares(fld, "ok") /\ ~Declares(fld, "err")
    \/ ~Declares(fld, "some") /\ (Declares(fld, "ok") \/ Declares(fld, "err"))

C10_KeyedList ==
    /\ \A p \in FieldPositions :
           IsKeyed(FieldAt(p)) =>
               LET fld == FieldAt(p)
                   label == LabelOf(FieldsAt(p), p[2]) IN
               /\ ~ValidKeys(fld) => ~Emitted
               /\ (~ValidKeys(fld) /\ pc = "diagnostic" /\ Cardinality(FieldPositions) = 1
                       /\ TypeStubs = <<>>)
                      => result.err = ErrKeys
               /\ (ValidKeys(fld) /\ Cardinality(FieldPositions) = 1 /\ TypeStubs = <<>>)
                      => pc # "diagnostic"
               /\ (Emitted /\ ValidKeys(fld)) =>
                      IF Declares(fld, "some")
                      THEN IsOptionalStmt(StmtAt(p), label, KeyTexts(KeysOf(fld), "some"))
                      ELSE IsResultStmt(StmtAt(p), label, KeyTexts(KeysOf(fld), "ok"),
                                        KeyTexts(KeysOf(fld), "err"))
    /\ Emitted =>
           \A p \in FieldPositions :
               StmtAt(p).cond \in {"is_ok", "is_err"} =>
                   "format_args" \in {StmtAt(p).then.arg, StmtAt(p).else.arg}

\* `some` together with `ok` was rejected with the message
C10_Witness ==
    /\ pc = "diagnostic"
    /\ result.err = ErrKeys
    /\ Cardinality(FieldPositions) = 1
    /\ \E p \in FieldPositions :
           /\ IsKeyed(FieldAt(p))
           /\ Declares(FieldAt(p), "some") /\ Declares(FieldAt(p), "ok")

(***************************************************************************)
(* C11: a field's override is decided by the first debug_stub annotation   *)
(* among its attributes (an attribute that parses as a meta item named     *)
(* debug_stub): the generation result is the one obtained when every field *)
(* keeps that annotation alone, so attributes with other names and later   *)
(* debug_stub annotations (malformed ones included) neither change the     *)
(* statement nor raise an error; a field without a debug_stub annotation   *)
(* gets the statement that contributes the field's own value.              *)
(***************************************************************************)
\* the debug_stub annotations of a field that parse as a meta item
RecognizedStubs(fld) ==
    SelectSeq(fld.attrs, LAMBDA a : a.name = "debug_stub" /\ a.meta # "Err")
HasStub(fld) == RecognizedStubs(fld) # <<>>
FirstStub(fld) == RecognizedStubs(fld)[1]

\* the same type, every field keeping only its first debug_stub annotation
FirstOnly(fld) ==
    [fld EXCEPT !.attrs = IF HasStub(fld) THEN <<FirstStub(fld)>> ELSE <<>>]
FirstOnlyFields(fields) ==
    [fields EXCEPT !.list = [i \in 1..Len(fields.list) |-> FirstOnly(fields.list[i])]]
FirstOnlyAst ==
    IF ast.data.kind = "Struct"
    THEN [ast EXCEPT !.data.fields = FirstOnlyFields(ast.data.fields)]
    ELSE IF ast.data.kind = "Enum"
    THEN [ast EXCEPT !.data.variants =
              [v \in 1..Len(ast.data.variants) |->
                  [ast.data.variants[v] EXCEPT
                       !.fields = FirstOnlyFields(ast.data.variants[v].fields)]]]
    ELSE ast

\* the expression a field's statement reads the field through
ExprAt(p) ==
    IF p[1] = 0
    THEN SelfExpr(IF FieldsAt(p).kind = "Named" THEN FieldAt(p).ident ELSE IndexNames[p[2]])
    ELSE LocalExpr(IF FieldsAt(p).kind = "Named" THEN FieldAt(p).ident ELSE TupleIdents[p[2]])

\* generation has ended, with the implementation or with a diagnostic
Generated == pc = "emitted"
DataExpanded == Generated \/ (pc = "diagnostic" /\ result.err # ErrIgnoreGenerics)

C11_FirstAnnotation ==
    DataExpanded =>
        /\ result = expand_data(FirstOnlyAst, generics_debug_bounded)
        /\ Generated =>
               \A p \in FieldPositions :
                   ~HasStub(FieldAt(p)) =>
                       StmtAt(p) = Plain(ExprAt(p),
                                         Call(LabelOf(FieldsAt(p), p[2]), "", "ref", ""))

\* a literal annotation followed by a bare one was emitted as the literal
C11_Witness ==
    /\ Emitted
    /\ \E p \in FieldPositions :
           /\ FieldAt(p).attrs = <<DebugStubLit("L"), AttrPath("debug_stub")>>
           /\ StmtAt(p) = Plain(NoExpr, Call(LabelOf(FieldsAt(p), p[2]), "",
                                             "format_args", "L"))

(***************************************************************************)
(* C12: if an annotation of the type is a configuration error (a           *)
(* type-level annotation with content other than the flag ignore_generics, *)
(* or the deciding annotation of any field of any variant), generation     *)
(* emits no part of the implementation: it ends in the diagnostic alone,   *)
(* with no function, no statement of a well-formed field and no arm of a   *)
(* well-formed variant, and nothing is ever rendered.                      *)
(* The code emits the whole implementation for the type-level contents it  *)
(* does not detect (an empty list, ignore_generics with a payload).        *)
(***************************************************************************)
\* a type-level annotation the code reports: not a list, or a list with an
\* entry that is not reached through the path ignore_generics
TypeStubErr(a) ==
    \/ a.meta # "List"
    \/ \E j \in 1..Len(a.nested) :
           a.nested[j].kind # "Meta" \/ a.nested[j].path # "ignore_generics"

ValidKeyList(nested) ==
    LET some == KeyPos(nested, "some") # {}
        ok == KeyPos(nested, "ok") # {}
        err == KeyPos(nested, "err") # {}
    IN (some /\ ~ok /\ ~err) \/ (~some /\ (ok \/ err))

\* the deciding annotation of the field is bare, assigns a non-string, or is
\* a keyed list without a valid key combination
FieldStubErr(fld) ==
    /\ HasStub(fld)
    /\ \/ FirstStub(fld).meta = "Path"
       \/ FirstStub(fld).meta = "NameValue" /\ FirstStub(fld).lit.kind # "Str"
       \/ FirstStub(fld).meta = "List" /\ ~ValidKeyList(FirstStub(fld).nested)

\* a type-level annotation other than a list of ignore_generics flags
UnrecognizedTypeLevel == \E i \in 1..Len(TypeStubs) : ~IsIgnoreGenericsFlag(TypeStubs[i])
TypeLevelError == \E i \in 1..Len(TypeStubs) : TypeStubErr(TypeStubs[i])
FieldLevelError == \E p \in FieldPositions : FieldStubErr(FieldAt(p))

C12_NoPartialOutput ==
    (UnrecognizedTypeLevel \/ FieldLevelError) =>
        /\ ~Emitted
        /\ result.impl = NoImpl
        /\ calls = <<>>
        /\ pc = "diagnostic" => result.err # NoErr

\* the same for the errors the code reports: these emit nothing
ReportedErrorEmitsNothing ==
    (TypeLevelError \/ FieldLevelError) =>
        /\ ~Emitted
        /\ result.impl = NoImpl
        /\ calls = <<>>
        /\ pc = "diagnostic" => result.err # NoErr

\* a type with a well-formed field and an erroneous one ended in the diagnostic
MixedFieldsRejected ==
    /\ pc = "diagnostic"
    /\ result.impl = NoImpl
    /\ ~TypeLevelError
    /\ \E p, q \in FieldPositions :
           /\ FieldStubErr(FieldAt(p))
           /\ FieldAt(q).attrs = <<DebugStubLit("L")>>

(***************************************************************************)
(* C13: generation fails only in the three misconfiguration cases          *)
(* (unrecognized type-level content; bare field-level annotation;          *)
(* unrecognized or ambiguous keyed-list combination) and succeeds for      *)
(* every other input.  C13_OnlyThreeCases states this; the code has two    *)
(* more failures.  C13_FailureCases: generation fails exactly when a       *)
(* processed annotation is in one of the three cases, or a field's         *)
(* deciding annotation assigns a value that is not a string literal        *)
(* ("expected string literal"), or the type is a union ("expected struct   *)
(* or enum"); each message belongs to its case, and every other input      *)
(* ends with an emitted implementation.                                    *)
(***************************************************************************)
BareStub(fld) == HasStub(fld) /\ FirstStub(fld).meta = "Path"
BadKeysStub(fld) ==
    HasStub(fld) /\ FirstStub(fld).meta = "List" /\ ~ValidKeyList(FirstStub(fld).nested)
NonStringStub(fld) ==
    HasStub(fld) /\ FirstStub(fld).meta = "NameValue" /\ FirstStub(fld).lit.kind # "Str"

Finished == Generated \/ pc = "diagnostic"

C13_OnlyThreeCases ==
    pc = "diagnostic" =>
        \/ UnrecognizedTypeLevel
        \/ \E p \in FieldPositions : BareStub(FieldAt(p))
        \/ \E p \in FieldPositions : BadKeysStub(FieldAt(p))

C13_FailureCases ==
    LET cause == \/ TypeLevelError
                 \/ \E p \in FieldPositions :
                        BareStub(FieldAt(p)) \/ BadKeysStub(FieldAt(p))
                                             \/ NonStringStub(FieldAt(p))
                 \/ ast.data.kind = "Union"
    IN /\ Finished => (pc = "diagnostic" <=> cause)
       /\ (Finished /\ ~cause) =>
              Generated /\ result.err = NoErr /\ result.impl # NoImpl
       /\ pc = "diagnostic" =>
              /\ result.err \in {ErrIgnoreGenerics, ErrListOrNameValue, ErrKeys,
                                 ErrLitStr, ErrUnion}
              /\ result.err = ErrIgnoreGenerics => TypeLevelError
              /\ result.err = ErrListOrNameValue =>
                     \E p \in FieldPositions : BareStub(FieldAt(p))
              /\ result.err = ErrKeys =>
                     \E p \in FieldPositions : BadKeysStub(FieldAt(p))
              /\ result.err = ErrLitStr =>
                     \E p \in FieldPositions : NonStringStub(FieldAt(p))
              /\ result.err = ErrUnion => ast.data.kind = "Union"

\* `#[debug_stub = 1]` on the only annotated field ended in "expected string literal"
C13_Witness ==
    /\ pc = "diagnostic"
    /\ result.err = ErrLitStr
    /\ TypeStubs = <<>>
    /\ \A p \in FieldPositions : ~BareStub(FieldAt(p)) /\ ~BadKeysStub(FieldAt(p))
    /\ \E p \in FieldPositions : NonStringStub(FieldAt(p))

(***************************************************************************)
(* C14: the binding pattern of every variant follows the value-used flags  *)
(* of its fields (false for a Literal override, true otherwise).  A Tuple  *)
(* variant's pattern has one entry per field in field order: the binding   *)
(* tuple_<position> where the value is used, the wildcard `_` where it is  *)
(* not.  A Record variant's pattern lists exactly the used fields, by      *)
(* name, in declaration order, and ends with the catch-all `..` if and     *)
(* only if some field is unused.                                           *)
(***************************************************************************)
\* the value-used flag of a well-formed field: false for Literal
ValueUsed(fld) == ~(HasStub(fld) /\ FirstStub(fld).meta = "NameValue")

RECURSIVE UsedIdents(_)
UsedIdents(list) ==
    IF list = <<>> THEN <<>>
    ELSE (IF ValueUsed(Head(list)) THEN <<Head(list).ident>> ELSE <<>>)
         \o UsedIdents(Tail(list))

SomeUnused(list) == \E i \in 1..Len(list) : ~ValueUsed(list[i])

C14_BindingPattern ==
    (Generated /\ ast.data.kind = "Enum") =>
        \A v \in 1..Len(ast.data.variants) :
            LET fields == ast.data.variants[v].fields
                pats == result.impl.arms[v].pats IN
            /\ fields.kind = "Unnamed" =>
                   /\ Len(pats) = Len(fields.list)
                   /\ \A i \in 1..Len(fields.list) :
                          pats[i] = IF ValueUsed(fields.list[i]) THEN TupleIdents[i] ELSE "_"
            /\ fields.kind = "Named" =>
                   pats = UsedIdents(fields.list)
                          \o (IF SomeUnused(fields.list) THEN <<"..">> ELSE <<>>)
            /\ fields.kind = "Unit" => pats = <<>>

\* a record variant whose first field is a Literal got the pattern `{ b, .. }`
C14_Witness ==
    /\ Emitted /\ ast.data.kind = "Enum"
    /\ \E v \in 1..Len(ast.data.variants) :
           LET fields == ast.data.variants[v].fields
               pats == result.impl.arms[v].pats IN
           /\ Len(fields.list) = 2
           /\ ~ValueUsed(fields.list[1]) /\ ValueUsed(fields.list[2])
           /\ fields.kind = "Named"
           /\ pats = <<fields.list[2].ident, "..">>

(***************************************************************************)
(* C15: every rendering of a Record or Tuple shape drives the output       *)
(* builder in this order: one opening call (debug_struct for a Record,     *)
(* debug_tuple for a Tuple) with the type's or variant's name, then        *)
(* exactly one field call per declared field in declaration order, each    *)
(* under the field's label and with one branch of the field's override,    *)
(* then exactly one finish.  The calls are made one at a time, each after  *)
(* the earlier ones, and none follows finish.                              *)
(***************************************************************************)
ShapeName ==
    IF ast.data.kind = "Enum" THEN ast.data.variants[self.variant].ident ELSE ast.ident

\* the call made for field i is one branch of the field's override
BranchOf(c, i) ==
    LET fld == CurFields.list[i] IN
    /\ c.op = "field"
    /\ c.name = LabelOf(CurFields, i)
    /\ IF ~HasStub(fld) THEN c.term = Term("", "ref", "", self.vals[i])
       ELSE IF FirstStub(fld).meta = "NameValue"
       THEN c.term = Term("", "args", FirstStub(fld).lit.value, NoValue)
       ELSE IF self.vals[i].tag = "None" THEN c.term = Term("", "args", "None", NoValue)
       ELSE c.term.wrap = self.vals[i].tag

CallsInOrder ==
    (Rendering /\ CurFields.kind \in {"Named", "Unnamed"}) =>
        LET n == Len(CurFields.list) IN
        /\ Len(calls) \in 1..(n + 2)
        /\ calls[1] = BCall(IF CurFields.kind = "Named" THEN "debug_struct"
                            ELSE "debug_tuple", ShapeName, NoTerm)
        /\ \A k \in 2..Len(calls) :
               IF k <= n + 1 THEN BranchOf(calls[k], k - 1)
               ELSE calls[k] = BCall("finish", "", NoTerm)
        /\ pc = "done" <=> Len(calls) = n + 2

\* a step makes at most one call, after the calls made so far, and none after finish
OneCallAtATime ==
    \/ calls' = calls
    \/ /\ Len(calls') = Len(calls) + 1
       /\ SubSeq(calls', 1, Len(calls)) = calls
       /\ calls # <<>> => calls[Len(calls)].op \notin {"finish", "write_str"}

C15_BuilderOrder == [](CallsInOrder) /\ [][OneCallAtATime]_vars

\* a tuple or record of two fields, one of them wrapped, was rendered to the end
C15_Witness ==
    /\ pc = "done"
    /\ Len(CurFields.list) = 2
    /\ Len(calls) = 4
    /\ calls[4].op = "finish"
    /\ \E i \in 1..2 : HasStub(CurFields.list[i]) /\ FirstStub(CurFields.list[i]).meta = "List"

(***************************************************************************)
(* C16: for every field of an emitted implementation, extract_value_attr   *)
(* returns the field's statement with value-used = false exactly when the  *)
(* field's override is Literal, and value-used = true for None,            *)
(* OptionalWrap and every ResultWrap sub-case; the statement of a Literal  *)
(* field is a single call with the text as argument and no reference to    *)
(* the field's access expression, and every other statement reads the      *)
(* field through its access expression.                                    *)
(***************************************************************************)
ExtractedAt(p) ==
    extract_value_attr(ExprAt(p), FieldAt(p).attrs, LabelOf(FieldsAt(p), p[2]))

StmtArgs(stmt) ==
    IF stmt.cond = "none" THEN {stmt.then.arg} ELSE {stmt.then.arg, stmt.else.arg}

C16_ValueUsed ==
    Generated =>
        \A p \in FieldPositions :
            LET fld == FieldAt(p)
                literal == HasStub(fld) /\ FirstStub(fld).meta = "NameValue" IN
            /\ ExtractedAt(p).err = NoErr
            /\ ExtractedAt(p).stmt = StmtAt(p)
            /\ ExtractedAt(p).used <=> ~literal
            /\ IF literal
               THEN /\ StmtAt(p).expr = NoExpr
                    /\ StmtArgs(StmtAt(p)) = {"format_args"}
               ELSE /\ StmtAt(p).expr = ExprAt(p)
                    /\ StmtArgs(StmtAt(p)) \cap {"ref", "ok_unwrap", "err_unwrap"} # {}
                           \/ StmtAt(p).cond # "none"

\* a Literal field (value not used) beside a field with a keyed list (value used)
C16_Witness ==
    /\ Emitted
    /\ \E p, q \in FieldPositions :
           /\ HasStub(FieldAt(p)) /\ FirstStub(FieldAt(p)).meta = "NameValue"
           /\ ~ExtractedAt(p).used /\ StmtAt(p).expr = NoExpr
           /\ HasStub(FieldAt(q)) /\ FirstStub(FieldAt(q)).meta = "List"
           /\ ExtractedAt(q).used /\ StmtAt(q).expr = ExprAt(q)

(***************************************************************************)
(* C17: every type or variant with zero fields is classified as Unit,      *)
(* whatever brackets its declaration uses, and is emitted by writing the   *)
(* bare name through the builder's literal write (write_str), not by       *)
(* opening and finishing a record or tuple structure.                      *)
(* C17_ZeroFieldsLiteralWrite states this; it fails for `Name {}` and      *)
(* `Name()`.  C17_ShapeByBrackets: the shape follows the brackets of the   *)
(* declaration.  Without brackets the shape is Unit and is emitted as one  *)
(* write_str of the name; with empty braces it is a Record and with empty   *)
(* parentheses a Tuple, emitted by opening debug_struct / debug_tuple with *)
(* the name and finishing it without a field call.                         *)
(***************************************************************************)
\* the declared shapes: 0 for a struct, v for the v-th variant of an enum
Shapes ==
    IF ast.data.kind = "Enum" THEN 1..Len(ast.data.variants)
    ELSE IF ast.data.kind = "Struct" THEN {0} ELSE {}
ShapeFields(v) == IF v = 0 THEN ast.data.fields ELSE ast.data.variants[v].fields
ShapeIdent(v) == IF v = 0 THEN ast.ident ELSE ast.data.variants[v].ident
\* how the shape is emitted: the opening call, its name, and the statements
ShapeOpen(v) == IF v = 0 THEN result.impl.body ELSE result.impl.arms[v].open
ShapeOpenName(v) == IF v = 0 THEN result.impl.name ELSE result.impl.arms[v].name
ShapeStmts(v) == IF v = 0 THEN result.impl.stmts ELSE result.impl.arms[v].stmts

C17_ZeroFieldsLiteralWrite ==
    Emitted =>
        \A v \in Shapes :
            ShapeFields(v).list = <<>> => ShapeOpen(v) = "write_str"

C17_ShapeByBrackets ==
    /\ Generated =>
           \A v \in Shapes :
               ShapeFields(v).list = <<>> =>
                   /\ ShapeOpenName(v) = ShapeIdent(v)
                   /\ ShapeStmts(v) = <<>>
                   /\ ShapeOpen(v) = IF ShapeFields(v).kind = "Unit" THEN "write_str"
                                     ELSE IF ShapeFields(v).kind = "Named" THEN "debug_struct"
                                     ELSE "debug_tuple"
    /\ (pc = "done" /\ CurFields.list = <<>>) =>
           calls = IF CurFields.kind = "Unit"
                   THEN <<BCall("write_str", ShapeName, NoTerm)>>
                   ELSE <<BCall(IF CurFields.kind = "Named" THEN "debug_struct"
                                ELSE "debug_tuple", ShapeName, NoTerm),
                          BCall("finish", "", NoTerm)>>

\* `Name()` was rendered by debug_tuple and finish
C17_Witness ==
    /\ pc = "done"
    /\ CurFields = Fields("Unnamed", <<>>)
    /\ calls = <<BCall("debug_tuple", ShapeName, NoTerm), BCall("finish", "", NoTerm)>>

(***************************************************************************)
(* C18: in the arm generated for a Record variant, the names bound by the  *)
(* pattern are names of the variant's fields, and none of them captures    *)
(* the name `f` the arm body uses for the output builder: the handle on    *)
(* which the body opens the record is always the formatter passed to fmt,  *)
(* also when a field is named `f`.  The code binds a used field named `f`  *)
(* in the pattern, which shadows the formatter.                            *)
(***************************************************************************)
C18_FormatterNotCaptured ==
    (Emitted /\ ast.data.kind = "Enum") =>
        \A v \in 1..Len(ast.data.variants) :
            LET fields == ast.data.variants[v].fields
                a == result.impl.arms[v] IN
            fields.kind = "Named" =>
                /\ bound_names(a.pats) \subseteq
                       {fields.list[i].ident : i \in 1..Len(fields.list)}
                /\ handle_of(a) = "formatter"

(***************************************************************************)
(* C19: in every generated variant arm, a name is bound by the arm's       *)
(* pattern if and only if an access expression of the arm's statements     *)
(* names it: each field whose value is used is bound exactly once, under   *)
(* its name (tuple_<position> in a Tuple variant), and its own statement   *)
(* reads that name; each field whose value is not used is neither bound    *)
(* nor named by any statement; a Tuple variant's pattern has exactly as    *)
(* many positions as the variant has fields.                               *)
(***************************************************************************)
\* the name a variant's field is bound under
BindingOf(fields, i) ==
    IF fields.kind = "Named" THEN fields.list[i].ident ELSE TupleIdents[i]

\* the names the access expressions of the statements mention
Referenced(stmts) == {stmts[k].expr.id : k \in {j \in 1..Len(stmts) : stmts[j].expr # NoExpr}}

C19_BoundIffReferenced ==
    (Generated /\ ast.data.kind = "Enum") =>
        \A v \in 1..Len(ast.data.variants) :
            LET fields == ast.data.variants[v].fields
                a == result.impl.arms[v] IN
            /\ bound_names(a.pats) = Referenced(a.stmts)
            /\ Len(a.stmts) = Len(fields.list)
            /\ \A i \in 1..Len(fields.list) :
                   IF ValueUsed(fields.list[i])
                   THEN /\ Cardinality({j \in 1..Len(a.pats) :
                                           a.pats[j] = BindingOf(fields, i)}) = 1
                        /\ a.stmts[i].expr = LocalExpr(BindingOf(fields, i))
                   ELSE /\ BindingOf(fields, i) \notin Range(a.pats)
                        /\ BindingOf(fields, i) \notin Referenced(a.stmts)
                        /\ a.stmts[i].expr = NoExpr
            /\ fields.kind = "Unnamed" => Len(a.pats) = Len(fields.list)

\* a tuple variant with an unused first and a used second field: `(_, tuple_1)`
C19_Witness ==
    /\ Emitted /\ ast.data.kind = "Enum"
    /\ \E v \in 1..Len(ast.data.variants) :
           LET fields == ast.data.variants[v].fields
               a == result.impl.arms[v] IN
           /\ fields.kind = "Unnamed"
           /\ Len(fields.list) = 2
           /\ ~ValueUsed(fields.list[1]) /\ ValueUsed(fields.list[2])
           /\ a.pats = <<"_", "tuple_1">>
           /\ Referenced(a.stmts) = {"tuple_1"}

(***************************************************************************)
(* C20: the type-level debug_stub annotations are all processed:           *)
(* suppressGenericBound is set if and only if at least one of them lists   *)
(* ignore_generics and none of them is erroneous (has content other than   *)
(* the flag ignore_generics); an erroneous one aborts generation with      *)
(* "expected 'ignore_generics'" even when an earlier one set the flag;     *)
(* type-level attributes with other names are ignored.                     *)
(* The code does not report an empty list or ignore_generics with a        *)
(* payload, so a type carrying one of these is generated, with the flag    *)
(* as the other annotations set it.                                        *)
(***************************************************************************)
C20_AllTypeLevelProcessed ==
    pc # "attrs" =>
        IF UnrecognizedTypeLevel
        THEN pc = "diagnostic" /\ result.err = ErrIgnoreGenerics
        ELSE /\ result.err # ErrIgnoreGenerics
             /\ ignore_generics <=> TypeStubs # <<>>

\* the same with the errors as the code reports them
ReportedTypeLevelProcessed ==
    pc # "attrs" =>
        IF TypeLevelError
        THEN pc = "diagnostic" /\ result.err = ErrIgnoreGenerics
        ELSE /\ result.err # ErrIgnoreGenerics
             /\ ignore_generics <=>
                    \E i \in 1..Len(TypeStubs) : TypeStubs[i].nested # <<>>

\* the flag was set by the first annotation and the second one aborted generation
FlagThenAbort ==
    /\ pc = "diagnostic"
    /\ Len(TypeStubs) = 2
    /\ IsIgnoreGenericsFlag(TypeStubs[1])
    /\ TypeStubErr(TypeStubs[2])
    /\ result.err = ErrIgnoreGenerics

(***************************************************************************)
(* C21: within a field-level keyed list, an entry that is not a string     *)
(* assignment to `some`, `ok` or `err` (unknown key, non-string value,     *)
(* bare word, nested list, bare literal) has no effect: the generation     *)
(* result is the one obtained with these entries removed, and no error is  *)
(* raised as long as the recognized entries form a valid combination.      *)
(* When a recognized key appears more than once, the text of its last      *)
(* occurrence is used.                                                     *)
(***************************************************************************)
\* a string assignment to one of the three keys
RecognizedEntry(n) ==
    /\ n.kind = "Meta" /\ n.form = "NameValue" /\ n.lit.kind = "Str"
    /\ n.path \in {"some", "ok", "err"}

\* the same type, every keyed list keeping only its recognized entries
RecognizedOnlyAttr(a) ==
    IF a.name = "debug_stub" /\ a.meta = "List"
    THEN [a EXCEPT !.nested = SelectSeq(a.nested, RecognizedEntry)]
    ELSE a
RecognizedOnlyFields(fields) ==
    [fields EXCEPT !.list =
        [i \in 1..Len(fields.list) |->
            [fields.list[i] EXCEPT
                 !.attrs = [j \in 1..Len(fields.list[i].attrs) |->
                               RecognizedOnlyAttr(fields.list[i].attrs[j])]]]]
RecognizedOnlyAst ==
    IF ast.data.kind = "Struct"
    THEN [ast EXCEPT !.data.fields = RecognizedOnlyFields(ast.data.fields)]
    ELSE IF ast.data.kind = "Enum"
    THEN [ast EXCEPT !.data.variants =
              [v \in 1..Len(ast.data.variants) |->
                  [ast.data.variants[v] EXCEPT
                       !.fields = RecognizedOnlyFields(ast.data.variants[v].fields)]]]
    ELSE ast

\* the text of the last string assignment to `key`, as a set (empty: no assignment)
LastText(nested, key) ==
    {nested[j].lit.value : j \in {k \in KeyPos(nested, key) :
                                     \A m \in KeyPos(nested, key) : m <= k}}

Keyed(fld) == HasStub(fld) /\ FirstStub(fld).meta = "List"

C21_IgnoredEntries ==
    /\ DataExpanded =>
           result = expand_data(RecognizedOnlyAst, generics_debug_bounded)
    /\ (Cardinality(FieldPositions) = 1 /\ TypeStubs = <<>>) =>
           \A p \in FieldPositions :
               (Keyed(FieldAt(p)) /\ ValidKeyList(FirstStub(FieldAt(p)).nested))
                   => pc # "diagnostic"
    /\ Generated =>
           \A p \in FieldPositions :
               Keyed(FieldAt(p)) =>
                   LET nested == FirstStub(FieldAt(p)).nested
                       label == LabelOf(FieldsAt(p), p[2]) IN
                   IF KeyPos(nested, "some") # {}
                   THEN IsOptionalStmt(StmtAt(p), label, LastText(nested, "some"))
                   ELSE IsResultStmt(StmtAt(p), label, LastText(nested, "ok"),
                                     LastText(nested, "err"))

\* `#[debug_stub(ok = 1, err = "Y")]` was generated as a ResultWrap with errText only
C21_Witness ==
    /\ Generated
    /\ \E p \in FieldPositions :
           /\ FieldAt(p).attrs =
                  <<DebugStubList(<<NestedNameValue("ok", IntLit("1")), KeyStr("err", "Y")>>)>>
           /\ OkCall(StmtAt(p)).arg = "ok_unwrap"
           /\ ErrCall(StmtAt(p)).text = "Y"

\* `#[debug_stub(ok = "X", ok = "X2")]` was generated with the text X2
RepeatedKeyLastWins ==
    /\ Generated
    /\ \E p \in FieldPositions :
           /\ FieldAt(p).attrs = <<DebugStubList(<<KeyStr("ok", "X"), KeyStr("ok", "X2")>>)>>
           /\ OkCall(StmtAt(p)).text = "X2"

(***************************************************************************)
(* C22: when a type has several misconfigurations, generation reports      *)
(* exactly one diagnostic: a type-level annotation error (content other    *)
(* than the flag ignore_generics) takes precedence over every field-level  *)
(* one, and among field-level errors the one reported is the first in      *)
(* declaration order (variants in order, fields within a variant in        *)
(* order), whatever the annotations after it are.                          *)
(* The code does not report an empty type-level list, so with one it       *)
(* reports the first field-level error instead.                            *)
(***************************************************************************)
\* declaration order of the fields
Before(p, q) == p[1] < q[1] \/ (p[1] = q[1] /\ p[2] < q[2])
FirstFieldError ==
    CHOOSE p \in FieldPositions :
        /\ FieldStubErr(FieldAt(p))
        /\ \A q \in FieldPositions : FieldStubErr(FieldAt(q)) => (q = p \/ Before(p, q))

\* the message of an erroneous field-level annotation
MessageOf(fld) ==
    IF FirstStub(fld).meta = "Path" THEN ErrListOrNameValue
    ELSE IF FirstStub(fld).meta = "List" THEN ErrKeys
    ELSE ErrLitStr

C22_OneDiagnosticInOrder ==
    Finished =>
        IF UnrecognizedTypeLevel
        THEN pc = "diagnostic" /\ result.err = ErrIgnoreGenerics
        ELSE FieldLevelError =>
                 pc = "diagnostic" /\ result.err = MessageOf(FieldAt(FirstFieldError))

\* the same with the type-level errors as the code reports them
ReportedInOrder ==
    Finished =>
        IF TypeLevelError
        THEN pc = "diagnostic" /\ result.err = ErrIgnoreGenerics
        ELSE FieldLevelError =>
                 pc = "diagnostic" /\ result.err = MessageOf(FieldAt(FirstFieldError))

\* two field-level errors of different kinds: the first one was reported
FirstOfTwoReported ==
    /\ pc = "diagnostic"
    /\ ~TypeLevelError
    /\ \E p, q \in FieldPositions :
           /\ Before(p, q)
           /\ FieldStubErr(FieldAt(p)) /\ FieldStubErr(FieldAt(q))
           /\ MessageOf(FieldAt(p)) # MessageOf(FieldAt(q))
           /\ result.err = MessageOf(FieldAt(p))

\* a reported type-level error beside a field-level error: the type-level one was reported
TypeLevelFirstReported ==
    /\ pc = "diagnostic"
    /\ TypeLevelError /\ FieldLevelError
    /\ result.err = ErrIgnoreGenerics

====
